---------------------------- MODULE Spec2Model ----------------------------
(***************************************************************************)
(* A model of import-weight.py: one run of the converter that reads a      *)
(* Google Fit weight export (JSON) and writes a two-column CSV (date,      *)
(* weight) to standard output.                                             *)
(*                                                                         *)
(* Representation of Python values                                         *)
(*   - a JSON value is a record [t |-> tag, <payload>], the payload field  *)
(*     named after the type; a JSON object (dict) holds a function from    *)
(*     its keys to JSON values;                                            *)
(*   - a str is a sequence of one-character strings, so that the regular   *)
(*     expression of line 43 can be run character by character;            *)
(*   - the integer startTimeNanos does not fit the 32-bit integers of the  *)
(*     model checker and is kept as [sec, nanos], standing for             *)
(*     sec * 10^9 + nanos with 0 <= nanos < 10^9;                          *)
(*   - a float (IEEE binary64) is kept as the exact rational it holds:     *)
(*     whole part and numerator of a fixed power-of-two denominator.       *)
(* Values have the JSON types of the export format (Data Source a string,  *)
(* Data Points a list of objects, startTimeNanos an integer, fpVal a       *)
(* number); what varies is presence, null, emptiness and content.          *)
(***************************************************************************)
EXTENDS Integers, Sequences, FiniteSets, TLC

\* ------------------------------------------------------------------------
\* Bounds of the model
\* ------------------------------------------------------------------------

\* The longest Data Points list a modelled export holds.
MaxPoints == 2

\* ------------------------------------------------------------------------
\* Python values
\* ------------------------------------------------------------------------

JNull == [t |-> "null"]
JStr(s) == [t |-> "str", chars |-> s]
JNum(n) == [t |-> "num", num |-> n]
JInt(sec, nanos) == [t |-> "int", int |-> [sec |-> sec, nanos |-> nanos]]
JList(s) == [t |-> "list", items |-> s]
JObj(f) == [t |-> "object", members |-> f]

\* dict.get(key): the value, or None (the model's JNull) when the key is absent.
DictGet(d, key) == IF key \in DOMAIN d THEN d[key] ELSE JNull

\* A dict without one of its keys.
Without(d, key) == [k \in (DOMAIN d) \ {key} |-> d[k]]

IsNone(x) == x.t = "null"

\* ------------------------------------------------------------------------
\* re.search('^raw:com.google.weight', s)                         (line 43)
\* ------------------------------------------------------------------------

\* The pattern as written in the source, one character per element.
\* '^' anchors the match at the start of the string; '.' is the regular
\* expression wildcard, which matches any character but a newline.
Pattern ==
    << "^", "r", "a", "w", ":", "c", "o", "m", ".", "g", "o", "o", "g", "l",
       "e", ".", "w", "e", "i", "g", "h", "t" >>

\* One pattern character against one subject character.
CharMatches(p, c) == IF p = "." THEN c # "\n" ELSE p = c

\* Whether pattern body pat matches s starting at position pos.
MatchAt(pat, s, pos) ==
    /\ pos + Len(pat) - 1 <= Len(s)
    /\ \A i \in 1..Len(pat) : CharMatches(pat[i], s[pos + i - 1])

\* re.search: a match anywhere, or at the start only when the pattern
\* begins with '^' (no MULTILINE flag is given).
re_search(pat, s) ==
    IF Len(pat) > 0 /\ pat[1] = "^"
    THEN MatchAt(Tail(pat), s, 1)
    ELSE \E pos \in 1..(Len(s) + 1) : MatchAt(pat, s, pos)

\* ------------------------------------------------------------------------
\* dp['startTimeNanos'] / 1e9                                     (line 51)
\* ------------------------------------------------------------------------

NanosPerSecond == 1000000000

\* Round-half-to-even of (q + rem/d), given 0 <= rem < d.
RoundHalfEven(q, rem, d) ==
    IF 2 * rem > d THEN q + 1
    ELSE IF 2 * rem < d THEN q
    ELSE IF q % 2 = 0 THEN q ELSE q + 1

\* <<(a * b) \div c, (a * b) % c>> for a, b >= 0 and c > 0, by long
\* multiplication in base k, so that no intermediate value leaves the 32-bit
\* range of the model checker's integers; it needs 2 * k * c < 2^31.
RECURSIVE MulDivMod(_, _, _, _)
MulDivMod(a, b, c, k) ==
    IF b = 0 THEN << 0, 0 >>
    ELSE LET h == MulDivMod(a, b \div k, c, k)
             low == b % k
             t == k * h[2] + (a % c) * low
         IN  << k * h[1] + (a \div c) * low + (t \div c), t % c >>

\* Spacing of binary64 values in [2^60, 2^61): 2^(60-52) nanoseconds.  Every
\* timestamp between 2006-07-14 and 2038-01-19 lies in that binade.
IntUlp == 2 ^ (60 - 52)

\* Fraction bits left to a binary64 value in [2^30, 2^31): 52 - 30.
FracScale == 2 ^ (52 - 30)

\* int -> float, the conversion `/` applies to its integer operand: the
\* nearest multiple of IntUlp, ties to even.  10^9 is a multiple of 512, so
\* the rounding acts on the nanos part alone and keeps the parity.
IntToFloat(n) ==
    LET j == RoundHalfEven(n.nanos \div IntUlp, n.nanos % IntUlp, IntUlp)
    IN  IF j * IntUlp = NanosPerSecond
        THEN [sec |-> n.sec + 1, nanos |-> 0]
        ELSE [sec |-> n.sec, nanos |-> j * IntUlp]

\* float / 1e9: the exact quotient sec + nanos/10^9 rounded to the nearest
\* binary64, that is to the nearest multiple of 1/FracScale.  The fraction
\* nanos * FracScale / 10^9 is computed in lowest terms (nanos is a multiple
\* of IntUlp and 10^9 of 2 * IntUlp).
\* The result is the float [whole |-> seconds, frac |-> numerator over FracScale].
TrueDiv(n) ==
    LET f == IntToFloat(n)
        g == 2 * IntUlp
        qr == MulDivMod(f.nanos \div IntUlp, (FracScale * IntUlp) \div g,
                        NanosPerSecond \div g, g)
        m == RoundHalfEven(qr[1], qr[2], NanosPerSecond \div g)
    IN  IF m = FracScale
        THEN [whole |-> f.sec + 1, frac |-> 0]
        ELSE [whole |-> f.sec, frac |-> m]

\* ------------------------------------------------------------------------
\* datetime.fromtimestamp(timestamp)                              (line 52)
\* ------------------------------------------------------------------------

MicrosPerSecond == 1000000
SecondsPerDay == 86400

\* Days since 1970-01-01 to the proleptic Gregorian civil date.
civil_from_days(days) ==
    LET z == days + 719468
        era == z \div 146097
        doe == z - era * 146097
        yoe == (doe - (doe \div 1460) + (doe \div 36524) - (doe \div 146096)) \div 365
        doy == doe - (365 * yoe + (yoe \div 4) - (yoe \div 100))
        mp == (5 * doy + 2) \div 153
        d == doy - ((153 * mp + 2) \div 5) + 1
        m == IF mp < 10 THEN mp + 3 ELSE mp - 9
        y == yoe + era * 400 + (IF m <= 2 THEN 1 ELSE 0)
    IN  [year |-> y, month |-> m, day |-> d]

\* fromtimestamp splits the float into whole seconds and a fraction, rounds
\* the fraction to microseconds (half to even), carries a full second, and
\* breaks the result down in local time, offset seconds east of UTC.
\* frac * 10^6 / FracScale is computed in lowest terms (both are multiples
\* of 2^6).
fromtimestamp(t, offset) ==
    LET g == 2 ^ 6
        qr == MulDivMod(t.frac, MicrosPerSecond \div g, FracScale \div g, 2 ^ 14)
        us == RoundHalfEven(qr[1], qr[2], FracScale \div g)
        secs == IF us = MicrosPerSecond THEN t.whole + 1 ELSE t.whole
        micro == IF us = MicrosPerSecond THEN 0 ELSE us
        local == secs + offset
        date == civil_from_days(local \div SecondsPerDay)
    IN  [year |-> date.year, month |-> date.month, day |-> date.day,
         second_of_day |-> local % SecondsPerDay, microsecond |-> micro]

\* ------------------------------------------------------------------------
\* timestamp.strftime('%Y-%m-%d')                                 (line 53)
\* ------------------------------------------------------------------------

Digit(d) == << "0", "1", "2", "3", "4", "5", "6", "7", "8", "9" >>[d + 1]

strftime(dt) ==
    << Digit((dt.year \div 1000) % 10), Digit((dt.year \div 100) % 10),
       Digit((dt.year \div 10) % 10), Digit(dt.year % 10), "-",
       Digit(dt.month \div 10), Digit(dt.month % 10), "-",
       Digit(dt.day \div 10), Digit(dt.day % 10) >>


\* str(x) of a Python int: its decimal digits, with a sign when negative.
RECURSIVE str(_)
str(n) ==
    IF n < 0 THEN << "-" >> \o str(0 - n)
    ELSE IF n < 10 THEN << Digit(n) >>
    ELSE str(n \div 10) \o << Digit(n % 10) >>

\* ------------------------------------------------------------------------
\* Text written to standard output
\* ------------------------------------------------------------------------

\* The message of line 47.
Notice ==
    <<
       "N", "o", " ", "v", "a", "l", "i", "d", " ", "w", "e", "i",
       "g", "h", "t", " ", "d", "a", "t", "a", " ", "f", "o", "u",
       "n", "d", " ", "i", "n", " ", "t", "h", "e", " ", "i", "n",
       "p", "u", "t", " ", "f", "i", "l", "e", "." >>

\* csv.writer.writerow of a sequence of fields, each already text: the
\* fields joined by the delimiter ','.  No field the program writes holds a
\* comma, a quote or a line break, so no field is quoted.  A line is kept
\* without its terminator.
RECURSIVE writerow(_)
writerow(fields) ==
    IF Len(fields) = 0 THEN << >>
    ELSE IF Len(fields) = 1 THEN fields[1]
    ELSE fields[1] \o << "," >> \o writerow(Tail(fields))

\* The header of line 73.
HeaderLine == writerow(<< << "d", "a", "t", "e" >>, << "w", "e", "i", "g", "h", "t" >> >>)

\* One tuple of output_data as its CSV line: the date is text already, the
\* weight is written as str(weight).
RowLine(row) == writerow(<< row[1], str(row[2].num) >>)

\* writer.writerows(rows): one line per row, in order.
writerows(rows) == [i \in 1..Len(rows) |-> RowLine(rows[i])]

\* ------------------------------------------------------------------------
\* The exports a run is given
\* ------------------------------------------------------------------------

\* The literal prefix the export's Data Source carries (line 4): the pattern
\* without its anchor, read as plain text.
Prefix == Tail(Pattern)

\* Data Source strings: the prefix alone, the prefix followed by more text,
\* the prefix with another character or a newline where it has a '.', the
\* prefix after a leading character, a proper beginning of the prefix,
\* another data type, and the empty string.
SourceStrings ==
    { Prefix,
      Prefix \o << ":", "u", "s", "e", "r" >>,
      [Prefix EXCEPT ![8] = "X"],
      [Prefix EXCEPT ![15] = "\n"],
      << "x" >> \o Prefix,
      SubSeq(Prefix, 1, Len(Prefix) - 1),
      SubSeq(Prefix, 1, 15) \o << "s", "t", "e", "p" >>,
      << >> }

\* Timestamps: the sample of line 6 (2016-01-01 05:07:19.273 UTC), the last
\* nanosecond of 2016-01-01 UTC, and noon of 2016-02-29 UTC.
TsSample == [sec |-> 1451624839, nanos |-> 273000000]
TsLastNano == [sec |-> 1451692799, nanos |-> 999999999]
TsLeapDay == [sec |-> 1456747200, nanos |-> 0]

\* One element of fitValue: {"value": {"fpVal": w}}.
FitValue(w) == JObj([value |-> JObj([fpVal |-> JNum(w)])])

\* A data point with the two fields the program reads.
DataPoint(ts, w) ==
    JObj([startTimeNanos |-> JInt(ts.sec, ts.nanos),
          fitValue |-> JList(<< FitValue(w) >>)])

\* A data point as the export writes it (line 6): further fields, and here a
\* second fitValue element as well.
DataPointFull ==
    JObj([startTimeNanos |-> JInt(TsLeapDay.sec, TsLeapDay.nanos),
          endTimeNanos |-> JInt(TsSample.sec, TsSample.nanos),
          fitValue |-> JList(<< FitValue(75), FitValue(60) >>),
          dataTypeName |-> JStr(<< "w" >>),
          rawTimestampNanos |-> JInt(0, 0)])

WellFormedPoints ==
    { DataPoint(TsSample, 89), DataPoint(TsLastNano, 72), DataPointFull }

\* Data points lacking, in turn, startTimeNanos, fitValue, a first fitValue
\* element, value, and fpVal.
MalformedPoints ==
    LET dp == DataPoint(TsSample, 89).members
    IN  { JObj(Without(dp, "startTimeNanos")),
          JObj(Without(dp, "fitValue")),
          JObj([dp EXCEPT !["fitValue"] = JList(<< >>)]),
          JObj([dp EXCEPT !["fitValue"] = JList(<< JObj(<< >>) >>)]),
          JObj([dp EXCEPT !["fitValue"] = JList(<< JObj([value |-> JObj(<< >>)]) >>)]) }

DataPointSet == WellFormedPoints \cup MalformedPoints

\* Lists of data points up to the bound, the empty list included.
PointLists == UNION { [1..n -> DataPointSet] : n \in 0..MaxPoints }

\* The root object: each of the two keys absent, null, or holding a value.
Documents ==
    LET sources == { << >> } \cup { ("Data Source" :> x) : x \in { JNull } \cup { JStr(s) : s \in SourceStrings } }
        points == { << >> } \cup { ("Data Points" :> x) : x \in { JNull } \cup { JList(l) : l \in PointLists } }
    IN  { a @@ b : a \in sources, b \in points }

\* What the path names: no file, a file that is not JSON, or a document.
NoFile == [exists |-> FALSE, content |-> JNull]
NotJson == [exists |-> TRUE, content |-> [t |-> "invalid"]]
Files == { NoFile, NotJson } \cup { [exists |-> TRUE, content |-> JObj(d)] : d \in Documents }

\* The local time zone of the machine, in seconds east of UTC.  The offset
\* is one value for the whole run: no daylight-saving change falls between
\* the timestamps of an export.
TzOffsets == { 0, 36000, 0 - 18000 }

\* ------------------------------------------------------------------------
\* State
\* ------------------------------------------------------------------------

VARIABLES
    caller,       \* "main": run as a script; "import": process_weight_data called by other code
    input_file,   \* the argument of process_weight_data: "str" or "other", by its type
    file,         \* what the path names on disk
    tzOffset,     \* the machine's local time zone
    pc,           \* the statement the run is at
    openHandles,  \* file objects open now
    openCalls,    \* calls of open() so far
    pending,      \* the exception raised inside the with block, "none" if none
    data,         \* line 38
    idx,          \* position of the for loop of line 50 in data['Data Points']
    output_data,  \* line 32
    stdout,       \* lines written to standard output
    stderr,       \* the uncaught exception reported, if any
    exitCode      \* the exit status, -1 while running

inputs == << caller, input_file, file, tzOffset >>
vars == << caller, input_file, file, tzOffset, pc, openHandles, openCalls,
           pending, data, idx, output_data, stdout, stderr, exitCode >>

Running == 0 - 1

\* argparse hands main a str (type=str, line 62); code importing the module
\* may pass anything.
Init ==
    /\ caller \in { "main", "import" }
    /\ input_file \in { "str", "other" }
    /\ caller = "main" => input_file = "str"
    /\ file \in Files
    /\ tzOffset \in TzOffsets
    /\ pc = "start"
    /\ openHandles = 0
    /\ openCalls = 0
    /\ pending = "none"
    /\ data = JNull
    /\ idx = 0
    /\ output_data = << >>
    /\ stdout = << >>
    /\ stderr = << >>
    /\ exitCode = Running

\* An exception nothing catches: the interpreter reports it on standard
\* error and exits with status 1.
Uncaught(exc) ==
    /\ pc' = "exited"
    /\ stderr' = Append(stderr, exc)
    /\ exitCode' = 1

\* Normal end of the script.
Finished ==
    /\ pc' = "exited"
    /\ exitCode' = 0
    /\ UNCHANGED stderr

\* ------------------------------------------------------------------------
\* process_weight_data                                        (lines 21-58)
\* ------------------------------------------------------------------------

\* Lines 67-70: main parses the arguments, configures logging and calls.
ParseArgs ==
    /\ pc = "start" /\ caller = "main"
    /\ pc' = "isinstance"
    /\ UNCHANGED << inputs, openHandles, openCalls, pending, data, idx,
                    output_data, stdout, stderr, exitCode >>

\* A direct call of process_weight_data by importing code.
DirectCall ==
    /\ pc = "start" /\ caller = "import"
    /\ pc' = "isinstance"
    /\ UNCHANGED << inputs, openHandles, openCalls, pending, data, idx,
                    output_data, stdout, stderr, exitCode >>

\* Lines 32-35.
IsInstanceCheck ==
    /\ pc = "isinstance"
    /\ output_data' = << >>
    /\ IF input_file # "str"
       THEN Uncaught("TypeError")
       ELSE pc' = "open" /\ UNCHANGED << stderr, exitCode >>
    /\ UNCHANGED << inputs, openHandles, openCalls, pending, data, idx, stdout >>

\* Line 37, open(input_file, 'r').
OpenFile ==
    /\ pc = "open"
    /\ openCalls' = openCalls + 1
    /\ IF file.exists
       THEN /\ openHandles' = openHandles + 1
            /\ pc' = "load"
            /\ UNCHANGED << stderr, exitCode >>
       ELSE /\ Uncaught("FileNotFoundError")
            /\ UNCHANGED openHandles
    /\ UNCHANGED << inputs, pending, data, idx, output_data, stdout >>

\* A variant of JsonLoad that swallows the decoding error and goes on with an
\* empty document.
JsonLoadLenient ==
    /\ pc = "load"
    /\ data' = IF file.content.t = "object" THEN file.content ELSE JObj(<< >>)
    /\ pc' = "exit_with"
    /\ UNCHANGED << inputs, openHandles, openCalls, pending, idx, output_data,
                    stdout, stderr, exitCode >>

\* Line 38, json.load(f): the document, or JSONDecodeError raised inside the
\* with block.
JsonLoad ==
    /\ pc = "load"
    /\ IF file.content.t = "object"
       THEN data' = file.content /\ UNCHANGED pending
       ELSE pending' = "JSONDecodeError" /\ UNCHANGED data
    /\ pc' = "exit_with"
    /\ UNCHANGED << inputs, openHandles, openCalls, idx, output_data, stdout,
                    stderr, exitCode >>

\* A variant of WithExit that closes the file on the normal path only, as an
\* explicit f.close() after json.load(f) would.
WithExitLeak ==
    /\ pc = "exit_with"
    /\ IF pending = "none"
       THEN /\ openHandles' = openHandles - 1
            /\ pc' = "validate"
            /\ UNCHANGED << stderr, exitCode >>
       ELSE /\ Uncaught(pending)
            /\ UNCHANGED openHandles
    /\ UNCHANGED << inputs, openCalls, pending, data, idx, output_data, stdout >>

\* Line 37, leaving the with block: the file object is closed, and an
\* exception raised in the block goes on to the caller.
WithExit ==
    /\ pc = "exit_with"
    /\ openHandles' = openHandles - 1
    /\ IF pending = "none"
       THEN pc' = "validate" /\ UNCHANGED << stderr, exitCode >>
       ELSE Uncaught(pending)
    /\ UNCHANGED << inputs, openCalls, pending, data, idx, output_data, stdout >>

\* A variant of NotExpectedFormat without the test for an empty list.
NotExpectedFormatNoLen(d) ==
    IF IsNone(DictGet(d, "Data Source")) THEN TRUE
    ELSE IF ~ re_search(Pattern, d["Data Source"].chars) THEN TRUE
    ELSE IsNone(DictGet(d, "Data Points"))

\* A variant of NotExpectedFormat that looks at Data Points alone.
NotExpectedFormatPointsOnly(d) ==
    IF IsNone(DictGet(d, "Data Points")) THEN TRUE
    ELSE Len(d["Data Points"].items) = 0

\* The condition of lines 41-46, evaluated left to right.
NotExpectedFormat(d) ==
    IF IsNone(DictGet(d, "Data Source")) THEN TRUE
    ELSE IF ~ re_search(Pattern, d["Data Source"].chars) THEN TRUE
    ELSE IF IsNone(DictGet(d, "Data Points")) THEN TRUE
    ELSE Len(d["Data Points"].items) = 0

\* Lines 41-48: the notice is printed with print(), to standard output.
Validate ==
    /\ pc = "validate"
    /\ IF NotExpectedFormat(data.members)
       THEN /\ stdout' = Append(stdout, Notice)
            /\ pc' = "return"
            /\ UNCHANGED idx
       ELSE /\ idx' = 1
            /\ pc' = "loop"
            /\ UNCHANGED stdout
    /\ UNCHANGED << inputs, openHandles, openCalls, pending, data, output_data,
                    stderr, exitCode >>

\* The exception lines 51 and 54 raise on a data point, "none" if none.
LookupError(dp) ==
    IF "startTimeNanos" \notin DOMAIN dp THEN "KeyError"
    ELSE IF "fitValue" \notin DOMAIN dp THEN "KeyError"
    ELSE IF Len(dp["fitValue"].items) = 0 THEN "IndexError"
    ELSE IF "value" \notin DOMAIN dp["fitValue"].items[1].members THEN "KeyError"
    ELSE IF "fpVal" \notin DOMAIN dp["fitValue"].items[1].members["value"].members
         THEN "KeyError"
    ELSE "none"

\* Lines 51-53.
DateOf(dp, offset) == strftime(fromtimestamp(TrueDiv(dp["startTimeNanos"].int), offset))

\* A variant of WeightOf that reads the last element of fitValue.
WeightOfLast(dp) ==
    dp["fitValue"].items[Len(dp["fitValue"].items)].members["value"].members["fpVal"]

\* Line 54.
WeightOf(dp) == dp["fitValue"].items[1].members["value"].members["fpVal"]

\* A variant of AppendRow that puts the new row first.
AppendRowFront(out, dp, offset) == << << DateOf(dp, offset), WeightOf(dp) >> >> \o out

\* Line 55.
AppendRow(out, dp, offset) == Append(out, << DateOf(dp, offset), WeightOf(dp) >>)

\* A variant of LoopBody that skips a data point it cannot read.
LoopBodySkipMalformed ==
    /\ pc = "loop"
    /\ idx <= Len(data.members["Data Points"].items)
    /\ LET dp == data.members["Data Points"].items[idx].members
       IN  output_data' = IF LookupError(dp) # "none" THEN output_data
                          ELSE AppendRow(output_data, dp, tzOffset)
    /\ idx' = idx + 1
    /\ UNCHANGED << inputs, pc, openHandles, openCalls, pending, data, stdout,
                    stderr, exitCode >>

\* Lines 50-55, one iteration of the for loop.
LoopBody ==
    /\ pc = "loop"
    /\ idx <= Len(data.members["Data Points"].items)
    /\ LET dp == data.members["Data Points"].items[idx].members
       IN  IF LookupError(dp) # "none"
           THEN /\ Uncaught(LookupError(dp))
                /\ UNCHANGED << idx, output_data >>
           ELSE /\ output_data' = AppendRow(output_data, dp, tzOffset)
                /\ idx' = idx + 1
                /\ UNCHANGED << pc, stderr, exitCode >>
    /\ UNCHANGED << inputs, openHandles, openCalls, pending, data, stdout >>

\* Line 50, the list is exhausted: the loop ends.
LoopEnd ==
    /\ pc = "loop"
    /\ idx > Len(data.members["Data Points"].items)
    /\ pc' = "return"
    /\ UNCHANGED << inputs, openHandles, openCalls, pending, data, idx,
                    output_data, stdout, stderr, exitCode >>

\* Line 58: back in main (line 71), or in the importing code, which ends.
Return ==
    /\ pc = "return"
    /\ IF caller = "main"
       THEN pc' = "if_output" /\ UNCHANGED << stderr, exitCode >>
       ELSE Finished
    /\ UNCHANGED << inputs, openHandles, openCalls, pending, data, idx,
                    output_data, stdout >>

\* ------------------------------------------------------------------------
\* main                                                       (lines 66-74)
\* ------------------------------------------------------------------------

\* Line 71: an empty list is false, and main ends.
IfOutputData ==
    /\ pc = "if_output"
    /\ IF Len(output_data) > 0
       THEN pc' = "header" /\ UNCHANGED << stderr, exitCode >>
       ELSE Finished
    /\ UNCHANGED << inputs, openHandles, openCalls, pending, data, idx,
                    output_data, stdout >>

\* Lines 72-73.
WriteHeader ==
    /\ pc = "header"
    /\ stdout' = Append(stdout, HeaderLine)
    /\ pc' = "rows"
    /\ UNCHANGED << inputs, openHandles, openCalls, pending, data, idx,
                    output_data, stderr, exitCode >>

\* Line 74, and the end of main.
WriteRows ==
    /\ pc = "rows"
    /\ stdout' = stdout \o writerows(output_data)
    /\ Finished
    /\ UNCHANGED << inputs, openHandles, openCalls, pending, data, idx,
                    output_data >>

Next ==
    \/ ParseArgs
    \/ DirectCall
    \/ IsInstanceCheck
    \/ OpenFile
    \/ JsonLoad
    \/ WithExit
    \/ Validate
    \/ LoopBody
    \/ LoopEnd
    \/ Return
    \/ IfOutputData
    \/ WriteHeader
    \/ WriteRows

Spec == Init /\ [][Next]_vars

\* ------------------------------------------------------------------------
\* The run's input, as the properties below speak of it
\* ------------------------------------------------------------------------

Exited == pc = "exited"

\* The run is given a path (a string) that names a file holding a JSON
\* object: the document the run parses.
IsDocument == input_file = "str" /\ file.exists /\ file.content.t = "object"
Doc == file.content.members

\* Data Source is a string / is absent or null.
HasSourceString == IsDocument /\ "Data Source" \in DOMAIN Doc /\ Doc["Data Source"].t = "str"
SourceMissing == IsDocument /\ ("Data Source" \notin DOMAIN Doc \/ Doc["Data Source"].t = "null")

\* The Data Source string begins with the literal text raw:com.google.weight.
StartsWithPrefix ==
    /\ HasSourceString
    /\ Len(Doc["Data Source"].chars) >= Len(Prefix)
    /\ SubSeq(Doc["Data Source"].chars, 1, Len(Prefix)) = Prefix

\* The Data Source string is matched by the pattern of line 43.
SourceMatches == HasSourceString /\ re_search(Pattern, Doc["Data Source"].chars)

\* Data Points is a non-empty list / is absent, null or empty.
HasPoints ==
    /\ IsDocument
    /\ "Data Points" \in DOMAIN Doc
    /\ Doc["Data Points"].t = "list"
    /\ Len(Doc["Data Points"].items) > 0
NoPoints == IsDocument /\ ~ HasPoints
Points == Doc["Data Points"].items

AllWellFormed == HasPoints /\ \A i \in 1..Len(Points) : Points[i] \in WellFormedPoints
SomeMalformed == HasPoints /\ \E k \in 1..Len(Points) : Points[k] \in MalformedPoints

\* The input's own fields of data point i, read without the program.
StartTimeOf(i) == Points[i].members["startTimeNanos"].int
FirstFpValOf(i) == Points[i].members["fitValue"].items[1].members["value"].members["fpVal"]

\* How often the notice stands on standard output.
NoticeCount == Cardinality({ i \in 1..Len(stdout) : stdout[i] = Notice })

\* ------------------------------------------------------------------------
\* Properties
\* ------------------------------------------------------------------------

\* C1: for a document that passes validation and whose N >= 1 data points
\* all carry startTimeNanos and fitValue[0].value.fpVal, a run of main ends
\* normally with exactly N+1 lines on standard output: the header first and
\* only once, then the row of the 1st, 2nd, ... N-th data point in that
\* order, equal samples included.
C1_HeaderThenRowsInOrder ==
    (caller = "main" /\ Exited /\ SourceMatches /\ AllWellFormed)
        => /\ exitCode = 0
           /\ Len(stdout) = Len(Points) + 1
           /\ stdout[1] = HeaderLine
           /\ \A i \in 1..Len(Points) :
                /\ stdout[i + 1] = RowLine(<< DateOf(Points[i].members, tzOffset), FirstFpValOf(i) >>)
                /\ stdout[i + 1] # HeaderLine

\* C1 witness: a finished run over two different well-formed data points,
\* and one over twice the same.
C1_Witness ==
    /\ caller = "main" /\ Exited /\ SourceMatches /\ AllWellFormed
    /\ Len(Points) = 2 /\ Points[1] # Points[2]
    /\ Len(stdout) = 3

\* C2: a run that produced no rows has written nothing at all to standard
\* output when it ends.
C2_NoRowsNothingOnStdout ==
    (Exited /\ exitCode = 0 /\ Len(output_data) = 0) => Len(stdout) = 0

\* C3: a Data Source string that does not start with the literal prefix
\* raw:com.google.weight yields no rows and a normal end, whatever Data
\* Points hold; rows come only from a Data Source that starts with it.
C3_LiteralPrefixOnly ==
    (HasSourceString /\ ~ StartsWithPrefix)
        => /\ Len(output_data) = 0
           /\ Exited => exitCode = 0

C6_MalformedJsonIsFatal ==
    (file = NotJson)
        => /\ pc \in { "start", "isinstance", "open", "load", "exit_with", "exited" }
           /\ Len(stdout) = 0
           /\ Len(output_data) = 0
           /\ Exited /\ input_file = "str" => (exitCode = 1 /\ stderr = << "JSONDecodeError" >>)

\* C6 witness: the run over a file that is not JSON has ended.
C6_Witness == file = NotJson /\ Exited /\ openCalls = 1 /\ exitCode = 1

\* C7: the weight of each row is the fpVal of the first fitValue element of
\* its data point, unchanged; further fitValue elements and other fields of
\* the data point change nothing in the row.
C7_WeightIsFirstFpVal ==
    /\ \A i \in 1..Len(output_data) :
         /\ output_data[i][2] = FirstFpValOf(i)
         /\ output_data[i] =
              AppendRow(<< >>, DataPoint(StartTimeOf(i), FirstFpValOf(i).num).members, tzOffset)[1]
    /\ (caller = "main" /\ Exited /\ exitCode = 0 /\ Len(output_data) > 0)
         => \A i \in 1..Len(output_data) :
              stdout[i + 1] = output_data[i][1] \o << "," >> \o str(FirstFpValOf(i).num)

\* C7 witness: the row of a data point with two fitValue elements and
\* further fields has been written.
C7_Witness ==
    /\ caller = "main" /\ Exited /\ exitCode = 0
    /\ Len(output_data) > 0
    /\ Points[1] = DataPointFull
    /\ Len(stdout) = Len(output_data) + 1

\* C8: the date of each row is the calendar day that holds the instant
\* startTimeNanos / 10^9 seconds after the epoch, moved by the local offset
\* and cut to the day.
C8_DateIsTruncatedLocalDay ==
    \A i \in 1..Len(output_data) :
        output_data[i][1] =
            strftime(civil_from_days((StartTimeOf(i).sec + tzOffset) \div SecondsPerDay))

\* C9: at most one file is open at a time and none once validation,
\* conversion or output begin or the run has ended, after a good parse and
\* after a failed one; an input_file that is no string raises TypeError and
\* no file is opened.
C9_FileClosedAfterParse ==
    /\ openHandles \in { 0, 1 }
    /\ openCalls <= 1
    /\ pc \in { "validate", "loop", "return", "if_output", "header", "rows", "exited" }
         => openHandles = 0
    /\ input_file # "str"
         => /\ openCalls = 0
            /\ Exited => (exitCode = 1 /\ stderr = << "TypeError" >>)

\* C9 witness: parsing failed with the file open, and the run ended.
C9_Witness ==
    /\ Exited /\ file = NotJson /\ openCalls = 1 /\ openHandles = 0
    /\ stderr = << "JSONDecodeError" >>

\* The three ways a run of main ends.
FatalOutcome == exitCode = 1 /\ Len(stderr) = 1 /\ Len(stdout) = 0
NoticeOutcome == exitCode = 0 /\ Len(stderr) = 0 /\ stdout = << Notice >>
CsvOutcome ==
    /\ exitCode = 0 /\ Len(stderr) = 0
    /\ Len(stdout) >= 2 /\ stdout[1] = HeaderLine
    /\ NoticeCount = 0

\* C10: a document whose Data Source is missing or not matched ends in the
\* notice, never in a fatal error, even when it holds malformed data points;
\* and every run of main ends in exactly one of: fatal error without CSV,
\* notice without CSV, header and rows without notice.
C10_ValidationFirst ==
    (caller = "main" /\ Exited)
        => /\ (SourceMissing \/ (HasSourceString /\ ~ SourceMatches)) => NoticeOutcome
           /\ FatalOutcome \/ NoticeOutcome \/ CsvOutcome
           /\ ~ (FatalOutcome /\ NoticeOutcome)
           /\ ~ (FatalOutcome /\ CsvOutcome)
           /\ ~ (NoticeOutcome /\ CsvOutcome)

\* C10 witness: a document that fails validation and holds a malformed data
\* point has ended in the notice.
C10_Witness ==
    /\ caller = "main" /\ Exited
    /\ SourceMissing /\ SomeMalformed
    /\ NoticeOutcome

=============================================================================
